---------------------------- MODULE Spec2Model ----------------------------
(***************************************************************************)
(* Model of the EHABI stack unwinder of src/src/fdir.c (UnwindStack,       *)
(* UnwindNextFrame, DecodeFrame, DecodeCompactModelEntry, GetInstruction,  *)
(* GetExidxEntry, DecodePrel31, GetWord).                                  *)
(*                                                                         *)
(* A 32-bit word is the pair <<hi, lo>> of its two 16-bit halves, so that  *)
(* all uint32_t arithmetic wraps modulo 2^32 exactly as in the C code.     *)
(* uint8_t locals (low, high, mid, instr_index, ...) are kept modulo 256.  *)
(***************************************************************************)
EXTENDS Integers, Sequences, FiniteSets, TLC

VARIABLES
    image,      \* the immutable memory image: exidx, extab, stack, the rest
    seed,       \* registers->lr and __builtin_frame_address(0) of the run
    size,       \* call_stack->size
    calls,      \* call_stack->calls[0 .. CALL_STACK_SIZE-1]
    past,       \* the call_t-sized memory right after calls[] (calls[20])
    pc,         \* position of the handler in UnwindStack / UnwindNextFrame
    fp,         \* UnwindNextFrame's local fp (line 150)
    low,        \* UnwindNextFrame's local low  (uint8_t)
    high,       \* UnwindNextFrame's local high (uint8_t)
    mid,        \* index of the last record probed by the search
    entry,      \* UnwindNextFrame's local entry (exidxEntry_t)
    last,       \* what the last frame step did (observation only)
    runs,       \* number of UnwindStack runs started on this buffer
    prev,       \* seed and CallStack of the previous run (observation only)
    seen,       \* the (low, high) pairs the running search has been in
                \* (observation only)
    dec,        \* a call of DecodeFrame run on its own: arguments, the
                \* locals of DecodeCompactModelEntry, the bytes it touched
    call,       \* a call of DecodePrel31 or GetWord run on its own
    build,      \* which fdir.c is linked: "fdir_c" (src/src/fdir.c) or
                \* "part_003" (src/unnamed/part_003)
    cpu,        \* registers at the entry of the running handler: lr
                \* (EXC_RETURN), msp, psp, r7, and the SCB words cfsr, hfsr
    info,       \* debug_info: registers, cfsr, hfsr
    act,        \* the running handler activation (handler, and what it has
                \* done: observation only)
    nested,     \* the handler activation the running one pre-empted
    scs         \* the System Control Space words SHCSR (0xE000ED24) and CCR
                \* (0xE000ED14)

\* The variables of the calls run on their own
pure == <<dec, call>>

\* The variables of an UnwindStack run
unwind == <<seed, size, calls, past, pc, fp, low, high, mid, entry,
            last, runs, prev, seen>>

\* The variables of the unwinder but its position
unwind_data == <<seed, size, calls, past, fp, low, high, mid, entry, last, runs,
                 prev, seen>>

\* The variables of the fault handlers
fault == <<build, cpu, info, act, nested, scs>>

vars == <<image, unwind, pure, fault>>

--------------------------------------------------------------------------
(* Bounds of the model. *)

\* Largest number of records in the exidx table of an image.
MaxEntries == 4

\* Number of UnwindStack runs made on the same buffer.
MaxRuns == 3

\* Number of records of a table that does not fit a uint8_t count.
BigTable == 258

\* Number of calls of InitFDIR made in a row.
MaxInits == 2

--------------------------------------------------------------------------
(* Program constants. *)

CALL_STACK_SIZE == 20

SU16 == 0

LU16 == 1

LU32 == 2

--------------------------------------------------------------------------
(* uint32_t arithmetic on <<hi, lo>> pairs (65536 = 2^16, 256 = 2^8). *)

W(h, l) == <<h, l>>

\* A natural below 2^31 as a word.
Nat32(n) == W(n \div 65536, n % 65536)

Add32(a, b) ==
    LET l == a[2] + b[2]
    IN  W((a[1] + b[1] + (l \div 65536)) % 65536, l % 65536)

Neg32(a) == Add32(W(65535 - a[1], 65535 - a[2]), W(0, 1))

Sub32(a, b) == Add32(a, Neg32(b))

Lt32(a, b) == a[1] < b[1] \/ (a[1] = b[1] /\ a[2] < b[2])

\* (w & 0x80000000) != 0
Bit31(w) == w[1] >= 32768

\* (w >> (8 * k)) & 0xff, k in 0..3
ByteOf(w, k) ==
    CASE k = 0 -> w[2] % 256
      [] k = 1 -> w[2] \div 256
      [] k = 2 -> w[1] % 256
      [] OTHER -> w[1] \div 256

\* The four bytes taken most significant first: a variant of Assemble on
\* which C16 must fail
AssembleBigEndian(b0, b1, b2, b3) == W(b0 * 256 + b1, b2 * 256 + b3)

\* b0 | (b1 << 8) | (b2 << 16) | (b3 << 24)
Assemble(b0, b1, b2, b3) == W(b3 * 256 + b2, b1 * 256 + b0)

\* addr & ~3
Align4(a) == W(a[1], a[2] - (a[2] % 4))

EXIDX_CANTUNWIND == W(0, 1)

\* 0xffffffff, the lr and fp of the terminal record
TERMINAL == W(65535, 65535)

--------------------------------------------------------------------------
(* The memory image.  It is never written by the unwinder; a run draws it  *)
(* in Init.  image.n records of .ARM.exidx start at __exidx_start, record  *)
(* i describing the function at FnAddr(i); .ARM.extab precedes the table;  *)
(* the interrupted stack is the 64 KiB at 0x20000000; every other word of  *)
(* the address space reads as image.fill.                                  *)

\* &__exidx_start = 0x00002000
ExidxStart == W(0, 8192)

\* &__extab_start = 0x00001F00, 8 bytes per function
ExtabStart == W(0, 7936)

\* Start of function i: 0x1000 + 0x40 * i
FnAddr(i) == W(0, 4096 + 64 * i)

\* Lowest address of the interrupted stack's 64 KiB: 0x20000000
StackBase == W(8192, 0)

\* The descriptor kinds a table record can have, record i of an image
\* having kind KindList[((i + image.rot) % 5) + 1].  In the "walk" image
\* every function has the Su16 descriptor 0x01, 0xB0, 0xB0 and the last
\* record (main) is CANTUNWIND.  In the "refuse" image every function has
\* an out-of-line Lu16 descriptor whose instructions are finish, finish,
\* then the two bytes 0x80 0x00 (refuse to unwind), finish, finish.
KindList == <<"su16", "cant", "ool16", "generic", "pr3">>

KindOf(i) ==
    IF image.stk = "walk"
    THEN IF i = image.n - 1 THEN "cant" ELSE "su16"
    ELSE IF image.stk = "refuse" THEN "refuse"
    ELSE KindList[((i + image.rot) % Len(KindList)) + 1]

\* prel31 encoding of target as seen from where (what the linker emits)
EncodePrel31(target, where) ==
    LET d == Sub32(target, where) IN W(d[1] % 32768, d[2])

\* Second word of table record i
ExidxSecond(i) ==
    CASE KindOf(i) = "su16"  -> W(32769, 45232)       \* 0x8001B0B0 inline Su16
      [] KindOf(i) = "cant"  -> EXIDX_CANTUNWIND      \* 0x00000001
      [] KindOf(i) = "pr3"   -> W(33536, 0)           \* 0x83000000 index 3
      [] OTHER               ->                       \* prel31 into extab
            EncodePrel31(Add32(ExtabStart, Nat32(8 * i)),
                         Add32(ExidxStart, Nat32(8 * i + 4)))

\* Word k (0 or 1) of the extab descriptor of function i
ExtabWord(i, k) ==
    IF KindOf(i) = "ool16"
    THEN IF k = 0 THEN W(33025, 432)                  \* 0x810101B0 Lu16, N = 1
                  ELSE W(45232, 45232)                \* 0xB0B0B0B0
    ELSE IF KindOf(i) = "refuse"
    THEN IF k = 0 THEN W(33025, 45232)                \* 0x8101B0B0 Lu16, N = 1
                  ELSE W(32768, 45232)                \* 0x8000B0B0
    ELSE IF k = 0 THEN W(0, 4660)                     \* 0x00001234 generic
                  ELSE W(0, 0)

\* Function whose code the k-th return address above the seed frame of the
\* "walk" stack lies in: record 1, then record 0, then main (the last one)
WalkCaller(k) == IF k = 0 THEN 1 ELSE IF k = 1 THEN 0 ELSE image.n - 1

\* Word of the interrupted stack at offset l of the stack region.  The
\* frames are 8 bytes apart: saved fp at l, return address | 1 at l + 4.
\* In the "walk" stack the frame at 0x20000108 is the one the seed frame
\* (0x20000100) returns to, and each saved fp is the frame below the next.
StackWord(l) ==
    IF image.stk = "zero" THEN W(0, 0)
    ELSE IF image.stk = "walk"
    THEN IF l % 8 = 4
         THEN Add32(FnAddr(WalkCaller((l \div 8) - 33)), W(0, 21))
         ELSE W(StackBase[1], l)
    ELSE IF l % 8 = 4
         THEN Add32(FnAddr((l \div 8) % image.n), W(0, 21))   \* return | 1
         ELSE IF image.stk = "guard" THEN W(1799, 1799)      \* 0x07070707
              ELSE W(StackBase[1], l)                             \* the slot itself

\* The 32-bit word stored at the word-aligned address a
MemWord(a) ==
    LET tbl == a[2] - ExidxStart[2]
        tab == a[2] - ExtabStart[2]
    IN  IF a[1] = StackBase[1] THEN StackWord(a[2])
        ELSE IF a[1] = 0 /\ tbl >= 0 /\ tbl < 8 * image.n
        THEN IF tbl % 8 = 0
             THEN EncodePrel31(FnAddr(tbl \div 8), a)
             ELSE ExidxSecond(tbl \div 8)
        ELSE IF a[1] = 0 /\ tab >= 0 /\ tab < 8 * image.n
                /\ KindOf(tab \div 8) \in {"ool16", "generic", "refuse"}
        THEN ExtabWord(tab \div 8, (tab % 8) \div 4)
        ELSE image.fill

\* The byte stored at address a
MemByte(a) == ByteOf(MemWord(Align4(a)), a[2] % 4)

--------------------------------------------------------------------------
(* The pure helpers of fdir.c. *)

\* GetWord: the four bytes at section + offset, assembled little-endian
GetWord(section, offset) ==
    LET field == Add32(section, offset)
    IN  Assemble(MemByte(field),
                 MemByte(Add32(field, W(0, 1))),
                 MemByte(Add32(field, W(0, 2))),
                 MemByte(Add32(field, W(0, 3))))

\* DecodePrel31 without the sign extension: a variant on which C15 must fail
DecodePrel31NoSign(word, where) == Add32(W(word[1] % 32768, word[2]), where)

\* DecodePrel31: sign-extend the low 31 bits from bit 30, add where
DecodePrel31(word, where) ==
    LET offset == W(word[1] % 32768, word[2])
        ext    == IF offset[1] >= 16384
                  THEN W(offset[1] + 32768, offset[2])
                  ELSE offset
    IN  Add32(ext, where)

\* GetExidxEntry decoding the second word at the address of the first one
\* (the + 4 forgotten): a variant of GetExidxEntry on which C31 must fail
GetExidxEntrySameWhere(section, offset) ==
    LET exidx_fn    == GetWord(section, offset)
        exidx_entry == GetWord(section, Add32(offset, W(0, 4)))
    IN  [exidx_fn      |-> exidx_fn,
         exidx_entry   |-> exidx_entry,
         decoded_fn    |-> IF Bit31(exidx_fn)
                           THEN W(0, 0)
                           ELSE DecodePrel31(exidx_fn, Add32(section, offset)),
         decoded_entry |-> IF Bit31(exidx_entry)
                           THEN exidx_entry
                           ELSE DecodePrel31(exidx_entry,
                                             Add32(section, offset))]

\* GetExidxEntry: the record at section + offset, raw and decoded
GetExidxEntry(section, offset) ==
    LET exidx_fn    == GetWord(section, offset)
        exidx_entry == GetWord(section, Add32(offset, W(0, 4)))
    IN  [exidx_fn      |-> exidx_fn,
         exidx_entry   |-> exidx_entry,
         decoded_fn    |-> IF Bit31(exidx_fn)
                           THEN W(0, 0)
                           ELSE DecodePrel31(exidx_fn, Add32(section, offset)),
         decoded_entry |-> IF Bit31(exidx_entry)
                           THEN exidx_entry
                           ELSE DecodePrel31(exidx_entry,
                                    Add32(Add32(section, offset), W(0, 4)))]

\* GetInstruction: byte `offset` (a uint8_t) of the descriptor; the first
\* word comes from the argument `word`, later ones are read at `entry`
GetInstruction(entry_ptr, word, offset) ==
    LET new_word == IF offset >= 4
                    THEN GetWord(entry_ptr, Nat32(4 * (offset \div 4)))
                    ELSE word
    IN  ByteOf(new_word, 3 - (offset % 4))

\* SIX_RIGHT_MASK without the shift: a variant of SIX_RIGHT_MASK on which
\* C27 must fail
SIX_RIGHT_MASK_Unshifted(instruction) == instruction % 64

\* SIX_RIGHT_MASK: (instruction & 0x3f) << 2
SIX_RIGHT_MASK(instruction) == (instruction % 64) * 4

\* instr & mask == value, for the masks 0xc0, 0xf0, 0xf8 of the ladder
MaskEq(instr, keep, value) == instr - (instr % keep) = value

\* The if-ladder with a finish opcode that ends the decoding (the pass
\* moves instr_index to 255, past every count): a variant of Ladder on
\* which C36 must fail
LadderFinishStops(instr_index, instr1, instr2, new_fp) ==
    IF instr1 = 176
    THEN [fp |-> new_fp, skip |-> 254 - instr_index]
    ELSE IF MaskEq(instr1, 64, 0)
    THEN [fp |-> Add32(new_fp, Nat32(SIX_RIGHT_MASK(instr1) + 4)), skip |-> 0]
    ELSE IF MaskEq(instr1, 64, 64)
    THEN [fp |-> Sub32(new_fp, Sub32(Nat32(SIX_RIGHT_MASK(instr1)), W(0, 4))),
          skip |-> 0]
    ELSE IF instr_index > 1 /\ instr1 = 178
    THEN [fp |-> Add32(new_fp, Nat32(516 + instr2 * 4)), skip |-> 1]
    ELSE IF instr_index > 1
            /\ (MaskEq(instr1, 16, 128) \/ instr1 \in {177, 179, 200, 201})
    THEN [fp |-> new_fp, skip |-> 1]
    ELSE [fp |-> new_fp, skip |-> 0]

\* One pass of the if-ladder of DecodeCompactModelEntry (lines 313-362):
\* the new new_fp and whether the pass does the extra instr_index++
Ladder(instr_index, instr1, instr2, new_fp) ==
    IF MaskEq(instr1, 64, 0)
    THEN [fp |-> Add32(new_fp, Nat32(SIX_RIGHT_MASK(instr1) + 4)), skip |-> 0]
    ELSE IF MaskEq(instr1, 64, 64)
    THEN [fp |-> Sub32(new_fp, Sub32(Nat32(SIX_RIGHT_MASK(instr1)), W(0, 4))),
          skip |-> 0]
    ELSE IF instr_index > 1 /\ instr1 = 128 /\ instr2 = 0
    THEN [fp |-> new_fp, skip |-> 1]
    ELSE IF instr_index > 1 /\ MaskEq(instr1, 16, 128)
    THEN [fp |-> new_fp, skip |-> 1]
    ELSE IF instr1 = 157 \/ instr1 = 159 \/ MaskEq(instr1, 16, 144)
            \/ MaskEq(instr1, 8, 160) \/ MaskEq(instr1, 8, 168)
            \/ instr1 = 176
    THEN [fp |-> new_fp, skip |-> 0]
    ELSE IF instr_index > 1 /\ instr1 = 177
    THEN [fp |-> new_fp, skip |-> 1]
    ELSE IF instr_index > 1 /\ instr1 = 178
    THEN [fp |-> Add32(new_fp, Nat32(516 + instr2 * 4)), skip |-> 1]
    ELSE IF instr_index > 1 /\ instr1 = 179
    THEN [fp |-> new_fp, skip |-> 1]
    ELSE IF instr1 = 180 \/ MaskEq(instr1, 8, 184) \/ MaskEq(instr1, 8, 192)
    THEN [fp |-> new_fp, skip |-> 0]
    ELSE IF instr_index > 1 /\ instr1 \in {198, 199, 200, 201}
    THEN [fp |-> new_fp, skip |-> 1]
    ELSE [fp |-> new_fp, skip |-> 0]

\* The while loop of DecodeCompactModelEntry from instr_index on; instr2
\* keeps its previous value when the last byte is being decoded
RECURSIVE DecodeLoop(_, _, _, _, _, _)
DecodeLoop(entry_ptr, word, instr_count, instr_index, instr2, new_fp) ==
    IF instr_index >= instr_count
    THEN new_fp
    ELSE LET i1 == GetInstruction(entry_ptr, word, (instr_index + 2) % 256)
             i2 == IF instr_index < instr_count - 1
                   THEN GetInstruction(entry_ptr, word, (instr_index + 3) % 256)
                   ELSE instr2
             r  == Ladder(instr_index, i1, i2, new_fp)
         IN  DecodeLoop(entry_ptr, word, instr_count,
                        (instr_index + r.skip + 1) % 256, i2, r.fp)

\* DecodeCompactModelEntry(entry, word, fp, instr_count)
DecodeCompactModelEntry(entry_ptr, word, old_fp, instr_count) ==
    DecodeLoop(entry_ptr, word, instr_count % 256, 0, 0, old_fp)

\* DecodeFrame: personality dispatch on bits 27-24 of the descriptor
DecodeFrame(descr, decoded_entry, old_fp) ==
    LET word        == W(descr[1] % 256, descr[2])
        instr_count == word[1] % 256
        index       == (descr[1] \div 256) % 16
    IN  IF index = SU16
        THEN DecodeCompactModelEntry(decoded_entry, word, old_fp, 3)
        ELSE IF index = LU16 \/ index = LU32
        THEN DecodeCompactModelEntry(decoded_entry, word, old_fp,
                                     2 + 4 * instr_count)
        ELSE old_fp

--------------------------------------------------------------------------
(* The CallStack buffer.  calls[] has CALL_STACK_SIZE elements; a store to *)
(* calls[CALL_STACK_SIZE] lands in the memory that follows the array,      *)
(* which `past` stands for.  The buffer lies outside the regions the walk  *)
(* reads.                                                                  *)

NoCall == [lr |-> W(0, 0), fp |-> W(0, 0)]

\* No call of DecodeFrame is being run on its own
NoDecode == [at |-> "idle"]

\* No call of DecodePrel31 or GetWord is being run on its own
NoJob == [fn |-> "none"]

\* Bit b of the 16-bit half x
HasBit(x, b) == (x \div (2 ^ b)) % 2 = 1

\* x | m on 16-bit halves
Or16(x, m) ==
    LET s[b \in 0 .. 16] ==
            IF b = 16 THEN 0
            ELSE (IF HasBit(x, b) \/ HasBit(m, b) THEN 2 ^ b ELSE 0) + s[b + 1]
    IN  s[0]

\* a | m on 32-bit words
Or32(a, m) == W(Or16(a[1], m[1]), Or16(a[2], m[2]))

\* 1 << 16, 1 << 17, 1 << 18
CMSIS_SHCSR_MEMFAULTENA_Msk == W(1, 0)

CMSIS_SHCSR_BUSFAULTENA_Msk == W(2, 0)

CMSIS_SHCSR_USGFAULTENA_Msk == W(4, 0)

\* 1 << 4, 1 << 3
CMSIS_CCR_DIV_0_TRP_Msk == W(0, 16)

CMSIS_CCR_UNALIGN_TRP_Msk == W(0, 8)

\* The builds of fdir.c: src/src/fdir.c and src/unnamed/part_003
Builds == {"fdir_c", "part_003"}

\* CMSIS_SHCSR = mask: a variant of ShcsrAfterInit on which C21 must fail
ShcsrAssigned(w) ==
    Or32(CMSIS_SHCSR_MEMFAULTENA_Msk,
         Or32(CMSIS_SHCSR_BUSFAULTENA_Msk, CMSIS_SHCSR_USGFAULTENA_Msk))

\* CMSIS_SHCSR |= MEMFAULTENA | BUSFAULTENA | USGFAULTENA
ShcsrAfterInit(w) ==
    Or32(w, Or32(CMSIS_SHCSR_MEMFAULTENA_Msk,
                 Or32(CMSIS_SHCSR_BUSFAULTENA_Msk,
                      CMSIS_SHCSR_USGFAULTENA_Msk)))

\* CMSIS_CCR |= DIV_0_TRP (fdir.c), |= DIV_0_TRP | UNALIGN_TRP (part_003)
CcrAfterInit(b, w) ==
    IF b = "fdir_c" THEN Or32(w, CMSIS_CCR_DIV_0_TRP_Msk)
    ELSE Or32(w, Or32(CMSIS_CCR_DIV_0_TRP_Msk, CMSIS_CCR_UNALIGN_TRP_Msk))

\* InitFDIR
InitFDIR(b, r) ==
    [shcsr |-> ShcsrAfterInit(r.shcsr), ccr |-> CcrAfterInit(b, r.ccr)]

\* SHCSR and CCR out of reset (CCR.STKALIGN set)
ResetScs == [shcsr |-> W(0, 0), ccr |-> W(0, 512)]

\* Register contents InitFDIR is called on
ScsValues ==
    [shcsr : {W(0, 0), W(7, 0), W(2, 1), W(65528, 65535), W(65535, 65535),
              W(5, 2048)},
     ccr : {W(0, 0), W(0, 512), W(0, 16), W(0, 8), W(0, 24), W(0, 65511),
            W(65535, 65535)}]

\* No fault has been taken: the registers are not looked at
NoCpu == [lr |-> W(0, 0), msp |-> W(0, 0), psp |-> W(0, 0), r7 |-> W(0, 0),
          cfsr |-> W(0, 0), hfsr |-> W(0, 0)]

\* debug_info = {0}
NoInfo == [registers |-> W(0, 0), cfsr |-> W(0, 0), hfsr |-> W(0, 0)]

\* No handler is running
NoAct == [handler |-> "none", captured |-> FALSE, from |-> "none"]

\* No handler has been pre-empted
NoNested == [handler |-> "none", pc |-> "none"]

\* No frame step has run yet in this UnwindStack run
NoStep == [kind |-> "none", target |-> W(0, 0), slot |-> 0,
           decoded |-> 0, sentinels |-> 0]

\* LAST_CALL(call_stack) read at index i
LAST_CALL(i) == IF i < CALL_STACK_SIZE THEN calls[i] ELSE [lr |-> past.lr, fp |-> past.fp]

\* The store LAST_CALL(call_stack) = rec also overwriting the record below:
\* a variant of StoreCalls on which C22 must fail
StoreCallsBelow(cs, i, rec) ==
    IF i > 0 /\ i < CALL_STACK_SIZE THEN [cs EXCEPT ![i] = rec, ![i - 1] = rec]
    ELSE IF i < CALL_STACK_SIZE THEN [cs EXCEPT ![i] = rec]
    ELSE cs

\* calls[] after the store LAST_CALL(call_stack) = rec with size = i
StoreCalls(cs, i, rec) ==
    IF i < CALL_STACK_SIZE THEN [cs EXCEPT ![i] = rec] ELSE cs

\* the memory after calls[] after the same store
StorePast(i, rec) ==
    IF i < CALL_STACK_SIZE THEN past
    ELSE [written |-> TRUE, lr |-> rec.lr, fp |-> rec.fp]

--------------------------------------------------------------------------
(* Initial states: a memory image, a seed, a zero-initialised buffer. *)

\* What the rest of the address space holds: 0, 0xFFFFFFFF, or 0x7FFFEC04
\* (as a table record: a function at 0xC04 + 8 * index)
Fills == {W(0, 0), W(65535, 65535), W(32767, 60420)}

Images ==
    [n : 1 .. MaxEntries, rot : 0 .. Len(KindList) - 1,
     fill : Fills, stk : {"chain", "guard", "zero"}]
        \cup [n : {5}, rot : {0}, fill : Fills, stk : {"walk"}]
        \cup [n : {BigTable}, rot : {0}, fill : {W(0, 0)}, stk : {"chain"}]
        \cup [n : {2}, rot : {0}, fill : {W(0, 0)}, stk : {"refuse"}]

\* registers->lr: nothing, below every function, terminal, inside a function
SeedLrs(n) ==
    {W(0, 0), W(0, 4094), TERMINAL}
        \cup {Add32(FnAddr(k), W(0, 21)) : k \in 0 .. n - 1}

\* __builtin_frame_address(0): an address of the interrupted stack
SeedFps == {W(8192, 256)}

Init ==
    /\ image \in Images
    /\ seed \in {[lr |-> l, fp |-> f] : l \in SeedLrs(MaxEntries), f \in SeedFps}
    /\ seed.lr \in SeedLrs(image.n)
    /\ size = 0
    /\ calls = [i \in 0 .. CALL_STACK_SIZE - 1 |-> NoCall]
    /\ past = [written |-> FALSE, lr |-> W(0, 0), fp |-> W(0, 0)]
    /\ pc = "start"
    /\ fp = W(0, 0)
    /\ low = 0
    /\ high = 0
    /\ mid = 0
    /\ entry = GetExidxEntry(ExidxStart, W(0, 0))
    /\ last = NoStep
    /\ runs = 0
    /\ prev = [size |-> 0, calls |-> calls, seed |-> seed, done |-> FALSE]
    /\ seen = {}
    /\ dec = NoDecode
    /\ call = NoJob
    /\ build = "fdir_c"
    /\ cpu = NoCpu
    /\ info = NoInfo
    /\ act = NoAct
    /\ nested = NoNested
    /\ scs = InitFDIR("fdir_c", ResetScs)

--------------------------------------------------------------------------
(* UnwindStack. *)

\* Lines 109-111: reset size, seed calls[0]
UnwindStackEnter ==
    /\ pc = "start"
    /\ size' = 0
    /\ calls' = [calls EXCEPT ![0] = [lr |-> seed.lr, fp |-> seed.fp]]
    /\ runs' = runs + 1
    /\ pc' = "loop"
    /\ UNCHANGED <<image, seed, past, fp, low, high, mid, entry, last, prev>>
    /\ UNCHANGED seen
    /\ UNCHANGED <<pure, fault>>

\* Line 121 with the bound off by one (size <= CALL_STACK_SIZE): a variant
\* of LoopCondition on which C8 must fail
LoopConditionInclusive ==
    size <= CALL_STACK_SIZE /\ LAST_CALL(size).lr # TERMINAL

\* Line 121: the loop condition
LoopCondition == size < CALL_STACK_SIZE /\ LAST_CALL(size).lr # TERMINAL

\* Line 121 true, then lines 139-159 of UnwindNextFrame
EnterFrame ==
    /\ pc = "loop"
    /\ LoopCondition
    /\ fp' = LAST_CALL(size).fp
    /\ low' = 0
    /\ high' = (image.n - 1) % 256
    /\ pc' = "search"
    /\ UNCHANGED <<image, seed, size, calls, past, mid, entry, last, runs, prev>>
    /\ seen' = {}
    /\ UNCHANGED <<pure, fault>>

\* Line 121 false: UnwindStack returns
ExitLoop ==
    /\ pc = "loop"
    /\ ~LoopCondition
    /\ pc' = "done"
    /\ prev' = [size |-> size, calls |-> calls, seed |-> seed, done |-> TRUE]
    /\ UNCHANGED <<image, seed, size, calls, past, fp, low, high, mid, entry,
                   last, runs>>
    /\ UNCHANGED seen
    /\ UNCHANGED <<pure, fault>>

--------------------------------------------------------------------------
(* UnwindNextFrame. *)

\* Line 162
Mid == (low + (high - low) \div 2) % 256

\* Line 165: the comparison that steers the search
GoRight(e) == Lt32(e.decoded_fn, LAST_CALL(size).lr)

\* Lines 161-170: one pass of the search loop
SearchProbe ==
    /\ pc = "search"
    /\ low <= high
    /\ mid' = Mid
    /\ entry' = GetExidxEntry(ExidxStart, Nat32(8 * Mid))
    /\ IF GoRight(entry')
       THEN low' = (Mid + 1) % 256 /\ high' = high
       ELSE high' = (Mid - 1) % 256 /\ low' = low
    /\ UNCHANGED <<image, seed, size, calls, past, pc, fp, last, runs, prev>>
    /\ seen' = seen \cup {<<low, high>>}
    /\ UNCHANGED <<pure, fault>>

\* Line 161 false: the search is over
SearchEnd ==
    /\ pc = "search"
    /\ low > high
    /\ pc' = "frame"
    /\ UNCHANGED <<image, seed, size, calls, past, fp, low, high, mid, entry,
                   last, runs, prev>>
    /\ UNCHANGED seen
    /\ UNCHANGED <<pure, fault>>

\* The two reads of lines 205-206 exchanged: a variant of CallerPair on
\* which C32 must fail
CallerPairSwapped(new_fp) ==
    [fp |-> GetWord(new_fp, W(0, 4)),
     lr |-> Sub32(GetWord(new_fp, W(0, 0)), W(0, 1))]

\* Lines 205-206 / 219-220: the caller pair read at new_fp
CallerPair(new_fp) ==
    [fp |-> GetWord(new_fp, W(0, 0)),
     lr |-> Sub32(GetWord(new_fp, W(0, 4)), W(0, 1))]

\* Lines 193-222: which branch the frame step takes
Dispatch(e) ==
    IF e.exidx_entry = EXIDX_CANTUNWIND THEN "cant"
    ELSE IF Bit31(e.exidx_entry) THEN "inline"
    ELSE IF Bit31(GetWord(e.decoded_entry, W(0, 0))) THEN "extab"
    ELSE "generic"

\* Lines 193-222 without the CANTUNWIND branch (the caller pair is read at
\* the unchanged fp): a variant of NewCall on which C6 must fail
NewCallNoCantunwind(e) == CallerPair(fp)

\* DecodeFrame's switch value: bits 27-24 of a compact descriptor
PersonalityIndex(descr) == (descr[1] \div 256) % 16

\* The frame step decodes a descriptor of one of the three personality
\* routines (neither CANTUNWIND, nor generic, nor DecodeFrame's default)
DecodedOk(e) ==
    \/ /\ Dispatch(e) = "inline"
       /\ PersonalityIndex(e.exidx_entry) \in {SU16, LU16, LU32}
    \/ /\ Dispatch(e) = "extab"
       /\ PersonalityIndex(GetWord(e.decoded_entry, W(0, 0)))
              \in {SU16, LU16, LU32}

\* Lines 193-222: the record stored in calls[size], if any
NewCall(e) ==
    CASE Dispatch(e) = "cant"   -> [lr |-> TERMINAL, fp |-> TERMINAL]
      [] Dispatch(e) = "inline" ->
            CallerPair(DecodeFrame(e.exidx_entry, e.decoded_entry, fp))
      [] OTHER ->
            CallerPair(DecodeFrame(GetWord(e.decoded_entry, W(0, 0)),
                                   e.decoded_entry, fp))

\* Line 180 advancing by three: a variant of NextSize on which C1 must fail
NextSizeStride == size + 3

\* Line 180
NextSize == size + 1

\* Lines 175-222: snap lr, advance size, store the next record
FrameStep ==
    /\ pc = "frame"
    /\ size' = NextSize
    /\ LET snap    == [LAST_CALL(size) EXCEPT !.lr = entry.decoded_fn]
           snapped == StoreCalls(calls, size, snap)
       IN  IF Dispatch(entry) = "generic"
           THEN calls' = snapped /\ past' = StorePast(size, snap)
           ELSE /\ calls' = StoreCalls(snapped, NextSize, NewCall(entry))
                /\ past' = StorePast(NextSize, NewCall(entry))
    /\ last' = [kind |-> Dispatch(entry), target |-> LAST_CALL(size).lr,
                slot |-> NextSize,
                decoded |-> last.decoded + (IF DecodedOk(entry) THEN 1 ELSE 0),
                sentinels |-> last.sentinels
                              + (IF Dispatch(entry) = "cant" THEN 1 ELSE 0)]
    /\ pc' = "loop"
    /\ UNCHANGED <<image, seed, fp, low, high, mid, entry, runs, prev>>
    /\ UNCHANGED seen
    /\ UNCHANGED <<pure, fault>>

\* UnwindStack is called again on the same debug_info and memory image: the
\* call after the first one may carry another registers->lr, later ones
\* repeat the seed of the call before
Reenter ==
    /\ pc = "done"
    /\ runs < MaxRuns
    /\ \E l \in SeedLrs(image.n) :
          /\ runs = 1 \/ l = seed.lr
          /\ seed' = [seed EXCEPT !.lr = l]
    /\ pc' = "start"
    /\ last' = NoStep
    /\ UNCHANGED <<image, size, calls, past, fp, low, high, mid, entry,
                   runs, prev>>
    /\ UNCHANGED seen
    /\ UNCHANGED <<pure, fault>>

Next ==
    \/ UnwindStackEnter
    \/ EnterFrame
    \/ ExitLoop
    \/ SearchProbe
    \/ SearchEnd
    \/ FrameStep
    \/ Reenter

Spec == Init /\ [][Next]_vars

--------------------------------------------------------------------------
(* The pure functions run on their own: one call of DecodeFrame, of        *)
(* DecodePrel31 or of GetWord per behaviour, on arguments drawn in         *)
(* PureInit.  DecodeCompactModelEntry is stepped one loop pass at a time   *)
(* and records which descriptor bytes it fetches and which it decodes as   *)
(* opcodes (byte offset 0 = bits 31-24 of the first word).                 *)

\* Unwind opcodes the streams are made of: vsp += 8, finish, pop r0 (two
\* bytes), vsp += 0x204 + (4 << 2) (two bytes)
Tokens == {<<1>>, <<176>>, <<177, 1>>, <<178, 4>>}

\* Every sequence of whole opcodes that is len bytes long
RECURSIVE Streams(_)
Streams(len) ==
    IF len = 0 THEN {<<>>}
    ELSE UNION {{t \o r : r \in Streams(len - Len(t))} :
                    t \in {u \in Tokens : Len(u) <= len}}

\* Bytes of unwind instructions a descriptor of personality pr carries:
\* 3 for Su16, 2 + 4 * 1 for Lu16 / Lu32 with one additional word
StreamLen(pr) == IF pr = SU16 THEN 3 ELSE 6

\* First word of the compact descriptor that carries stream st: bit 31,
\* the personality index in bits 27-24, then the three instructions (Su16)
\* or the word count 1 and the first two instructions (Lu16 / Lu32)
DescriptorOf(pr, st) ==
    IF pr = SU16
    THEN W(32768 + 256 * pr + st[1], 256 * st[2] + st[3])
    ELSE W(32768 + 256 * pr + 1, 256 * st[1] + st[2])

\* The word that follows the first one: instructions 3 .. 6 of a long
\* descriptor, most significant byte first
FollowingWord(pr, st) ==
    IF pr = SU16 THEN W(0, 0)
    ELSE W(256 * st[3] + st[4], 256 * st[5] + st[6])

\* decoded_entry as UnwindNextFrame passes it: the descriptor itself for an
\* inline one (GetExidxEntry, line 417), the address of the extab entry
\* otherwise (here 0x00003000, whose following words read as image.fill)
EntryPtrOf(pr, st) == IF pr = SU16 THEN DescriptorOf(pr, st) ELSE W(0, 12288)

DecodeJobs ==
    UNION {{[pr |-> p, stream |-> st] : st \in Streams(StreamLen(p))} :
              p \in {SU16, LU16, LU32}}

\* The call of DecodeFrame that decodes stream st under personality pr with
\* the initial vsp v
JobOf(pr, st, v) ==
    [descr |-> DescriptorOf(pr, st), entry_ptr |-> EntryPtrOf(pr, st),
     following |-> FollowingWord(pr, st), stream |-> st, fp0 |-> v]

\* One-byte opcodes 00xxxxxx and 01xxxxxx: xxxxxx = 0, 1 and 63 of each
AddSubOps == {0, 1, 63, 64, 65, 127}

\* The stream of len bytes that is op at position i among finish opcodes
Place(op, i, len) == [j \in 1 .. len |-> IF j = i THEN op ELSE 176]

\* Initial values of vsp: a stack address, and the two ends of the address
\* space
Vsps == {W(8192, 256), W(0, 0), W(65535, 65532)}

\* Calls decoding one 00xxxxxx or 01xxxxxx opcode at every position
OpcodeJobs ==
    {JobOf(p, Place(op, i, StreamLen(p)), v) :
         p \in {SU16, LU16, LU32}, op \in AddSubOps, i \in 1 .. 6, v \in Vsps}

\* Values of bits 23-16 (N) of a long descriptor
WordCounts == {0, 1, 63, 64}

\* Calls decoding a long descriptor of N additional words, every
\* instruction being finish
CountJobs ==
    {[descr |-> W(32768 + 256 * p + N, 45232), entry_ptr |-> W(0, 12288),
      following |-> W(45232, 45232),
      stream |-> [i \in 1 .. 2 + 4 * N |-> 176], fp0 |-> W(8192, 256)] :
         p \in {LU16, LU32}, N \in WordCounts}

\* Calls on a descriptor of a reserved personality index (3, 4, 15) whose
\* data bytes are 0x01 0x01 0xB2 and whose next word is 0x04010101
ReservedJobs ==
    {[descr |-> W(32768 + 256 * p + 1, 434), entry_ptr |-> W(0, 12288),
      following |-> W(1025, 257), stream |-> <<>>, fp0 |-> W(8192, 256)] :
         p \in {3, 4, 15}}

\* Words and locations DecodePrel31 is called on
Prel31Words ==
    {W(0, 0), W(0, 4), W(16383, 65535), W(16384, 0), W(32767, 65532),
     W(32767, 61440), W(24576, 1), W(8192, 43690)}

Prel31Wheres ==
    {W(0, 0), W(0, 8192), W(0, 8196), W(8192, 256), W(32768, 0),
     W(65535, 65520), W(65535, 65535), W(49152, 4)}

Prel31Jobs ==
    {[fn |-> "DecodePrel31", a |-> W(w[1] + t, w[2]), b |-> l,
      out |-> W(0, 0), done |-> FALSE] :
        w \in Prel31Words, t \in {0, 32768}, l \in Prel31Wheres}

\* Sections and offsets GetWord is called on: the table, the stack, the
\* memory outside the sections; aligned or not
GetWordJobs ==
    {[fn |-> "GetWord", a |-> sec, b |-> W(0, o),
      out |-> W(0, 0), done |-> FALSE] :
        sec \in {ExidxStart, W(StackBase[1], 256), W(0, 12288)},
        o \in 0 .. 9}

\* Sections and offsets GetExidxEntry is called on: the records of the
\* table, and 8-byte records of the stack and of the memory outside the
\* sections (both words image.fill)
GetExidxJobs ==
    {[fn |-> "GetExidxEntry", a |-> sec, b |-> W(0, o),
      out |-> W(0, 0), done |-> FALSE] :
        sec \in {ExidxStart, W(StackBase[1], 256), W(0, 12288)},
        o \in {0, 8, 16}}

\* Memory images GetExidxEntry is called on
ExidxImages ==
    [n : {3}, rot : 0 .. Len(KindList) - 1, stk : {"chain"},
     fill : {W(65535, 65535), W(0, 1), W(32767, 60420), W(32769, 45232)}]

PureInit ==
    /\ \/ \E j \in {JobOf(d.pr, d.stream, W(8192, 256)) : d \in DecodeJobs}
                      \cup OpcodeJobs \cup CountJobs \cup ReservedJobs :
             /\ dec = [at |-> "call",
                       descr |-> j.descr,
                       entry_ptr |-> j.entry_ptr,
                       fp0 |-> j.fp0, stream |-> j.stream,
                       word |-> W(0, 0), count |-> 0, index |-> 0,
                       instr2 |-> 0, fp |-> W(0, 0),
                       ops |-> {}, fetched |-> {}]
             /\ image = [n |-> 1, rot |-> 0, stk |-> "zero",
                         fill |-> j.following]
             /\ call = NoJob
       \/ /\ call \in Prel31Jobs \cup GetWordJobs
          /\ dec = NoDecode
          /\ image \in [n : {2}, rot : {0}, stk : {"chain"},
                        fill : {W(1027, 513), W(65244, 47768)}]
       \/ /\ call \in GetExidxJobs
          /\ dec = NoDecode
          /\ image \in ExidxImages
       \/ /\ scs \in ScsValues
          /\ call = [fn |-> "InitFDIR", n |-> 0, before |-> scs, once |-> scs]
          /\ dec = NoDecode
          /\ image = [n |-> 1, rot |-> 0, stk |-> "zero", fill |-> W(0, 0)]
    /\ seed = [lr |-> TERMINAL, fp |-> W(8192, 256)]
    /\ size = 0
    /\ calls = [i \in 0 .. CALL_STACK_SIZE - 1 |-> NoCall]
    /\ past = [written |-> FALSE, lr |-> W(0, 0), fp |-> W(0, 0)]
    /\ pc = "start"
    /\ fp = W(0, 0)
    /\ low = 0
    /\ high = 0
    /\ mid = 0
    /\ entry = GetExidxEntry(ExidxStart, W(0, 0))
    /\ last = NoStep
    /\ runs = 0
    /\ prev = [size |-> 0, calls |-> calls, seed |-> seed, done |-> FALSE]
    /\ seen = {}
    /\ build \in Builds
    /\ call.fn # "InitFDIR" => (build = "fdir_c" /\ scs = ResetScs)
    /\ cpu = NoCpu
    /\ info = NoInfo
    /\ act = NoAct
    /\ nested = NoNested

\* The switch of DecodeFrame with a default that decodes as a long
\* descriptor: a variant of HasRoutine on which C29 must fail
HasRoutineAlways(index) == index \in 0 .. 15

\* The switch of DecodeFrame has a case for the personality index
HasRoutine(index) == index \in {SU16, LU16, LU32}

\* DecodeFrame, lines 229-290, up to the call of DecodeCompactModelEntry
\* (or to its return, for a personality index above 2)
DecodeEnter ==
    /\ dec.at = "call"
    /\ LET word        == W(dec.descr[1] % 256, dec.descr[2])
           instr_count == word[1] % 256
           index       == PersonalityIndex(dec.descr)
       IN  dec' = IF ~HasRoutine(index)
                  THEN [dec EXCEPT !.at = "ret", !.fp = dec.fp0]
                  ELSE IF index = SU16
                  THEN [dec EXCEPT !.at = "loop", !.word = word,
                                   !.count = 3, !.fp = dec.fp0]
                  ELSE [dec EXCEPT !.at = "loop", !.word = word,
                                   !.count = (2 + 4 * instr_count) % 256,
                                   !.fp = dec.fp0]
    /\ UNCHANGED <<image, unwind, call, fault>>

\* Lines 307-365: one pass of the while loop of DecodeCompactModelEntry
DecodeStep ==
    /\ dec.at = "loop"
    /\ dec.index < dec.count
    /\ LET o1 == (dec.index + 2) % 256
           o2 == (dec.index + 3) % 256
           i1 == GetInstruction(dec.entry_ptr, dec.word, o1)
           i2 == IF dec.index < dec.count - 1
                 THEN GetInstruction(dec.entry_ptr, dec.word, o2)
                 ELSE dec.instr2
           r  == Ladder(dec.index, i1, i2, dec.fp)
       IN  dec' = [dec EXCEPT
                     !.index = (dec.index + r.skip + 1) % 256,
                     !.instr2 = i2,
                     !.fp = r.fp,
                     !.ops = @ \cup {o1},
                     !.fetched = @ \cup {o1} \cup
                         (IF dec.index < dec.count - 1 THEN {o2} ELSE {})]
    /\ UNCHANGED <<image, unwind, call, fault>>

\* Lines 307 and 367: the loop is over, new_fp is returned
DecodeReturn ==
    /\ dec.at = "loop"
    /\ dec.index >= dec.count
    /\ dec' = [dec EXCEPT !.at = "ret"]
    /\ UNCHANGED <<image, unwind, call, fault>>

\* One call of DecodePrel31
CallDecodePrel31 ==
    /\ call.fn = "DecodePrel31"
    /\ ~call.done
    /\ call' = [call EXCEPT !.out = DecodePrel31(call.a, call.b),
                            !.done = TRUE]
    /\ UNCHANGED <<image, unwind, dec, fault>>

\* One call of GetWord
CallGetWord ==
    /\ call.fn = "GetWord"
    /\ ~call.done
    /\ call' = [call EXCEPT !.out = GetWord(call.a, call.b), !.done = TRUE]
    /\ UNCHANGED <<image, unwind, dec, fault>>

\* One call of GetExidxEntry
CallGetExidxEntry ==
    /\ call.fn = "GetExidxEntry"
    /\ ~call.done
    /\ call' = [call EXCEPT !.out = GetExidxEntry(call.a, call.b),
                            !.done = TRUE]
    /\ UNCHANGED <<image, unwind, dec, fault>>

\* One call of InitFDIR
CallInitFDIR ==
    /\ call.fn = "InitFDIR"
    /\ call.n < MaxInits
    /\ scs' = InitFDIR(build, scs)
    /\ call' = [call EXCEPT !.n = @ + 1,
                            !.once = IF call.n = 0 THEN scs' ELSE @]
    /\ UNCHANGED <<image, unwind, dec, build, cpu, info, act, nested>>

PureNext ==
    \/ DecodeEnter
    \/ DecodeStep
    \/ DecodeReturn
    \/ CallDecodePrel31
    \/ CallGetWord
    \/ CallGetExidxEntry
    \/ CallInitFDIR

PureSpec == PureInit /\ [][PureNext]_vars

--------------------------------------------------------------------------
(* The fault handlers.  Two versions of fdir.c are in the repository:
   src/src/fdir.c, whose four handlers all capture and unwind, and
   src/unnamed/part_003, where only UsageFault_Handler does.  The handlers
   run on the unwinder modelled above; debug_info is taken to designate one
   DebugInfo object in both versions. *)

\* The vector table's fault handlers
Handlers == {"HardFault", "MemManage", "BusFault", "UsageFault"}

\* EXC_RETURN of a fault taken from thread code running on the main stack
\* (0xFFFFFFF9), on the process stack (0xFFFFFFFD), and of a fault taken from
\* a handler (0xFFFFFFF1)
ExcThreadMsp == W(65535, 65529)

ExcThreadPsp == W(65535, 65533)

ExcHandler == W(65535, 65521)

\* The words of CFSR and HFSR at the entry of a handler: a division by zero,
\* and a precise bus error that was escalated
Scbs == {[cfsr |-> W(512, 0), hfsr |-> W(0, 0)],
         [cfsr |-> W(0, 33280), hfsr |-> W(16384, 0)]}

\* The memory images the handlers are run on
HandlerImages ==
    [n : {2}, rot : 0 .. Len(KindList) - 1,
     fill : {W(0, 0), W(32767, 60420)}, stk : {"chain", "guard"}]

\* The word of CFSR, at 0xE000ED28
CMSIS_CFSR == cpu.cfsr

\* Reading CFSR where HFSR is meant: a variant of CMSIS_HFSR on which C18
\* must fail
CMSIS_HFSR_AtCfsr == cpu.cfsr

\* The word of HFSR, at 0xE000ED2C
CMSIS_HFSR == cpu.hfsr

\* tst lr, #4 / ite eq with the two moves exchanged: a variant of
\* SelectedSp on which C17 must fail
SelectedSpSwapped == IF (cpu.lr[2] \div 4) % 2 = 0 THEN cpu.psp ELSE cpu.msp

\* tst lr, #4 / ite eq / mrseq msp / mrsne psp
SelectedSp == IF (cpu.lr[2] \div 4) % 2 = 0 THEN cpu.msp ELSE cpu.psp

\* The handler's body has the capture and the unwind
HandlerCaptures(b, h) == b = "fdir_c" \/ h = "UsageFault"

HandlerInit ==
    /\ image \in HandlerImages
    /\ seed = [lr |-> W(0, 0), fp |-> W(0, 0)]
    /\ size = 0
    /\ calls = [i \in 0 .. CALL_STACK_SIZE - 1 |-> NoCall]
    /\ past = [written |-> FALSE, lr |-> W(0, 0), fp |-> W(0, 0)]
    /\ pc = "entry"
    /\ fp = W(0, 0)
    /\ low = 0
    /\ high = 0
    /\ mid = 0
    /\ entry = GetExidxEntry(ExidxStart, W(0, 0))
    /\ last = NoStep
    /\ runs = 0
    /\ prev = [size |-> 0, calls |-> calls, seed |-> seed, done |-> FALSE]
    /\ seen = {}
    /\ dec = NoDecode
    /\ call = NoJob
    /\ build \in Builds
    /\ \E h \in Handlers : act = [NoAct EXCEPT !.handler = h]
    /\ \E x \in {ExcThreadMsp, ExcThreadPsp}, s \in Scbs :
           cpu = [lr |-> x, msp |-> W(8192, 512), psp |-> W(8192, 776),
                  r7 |-> W(8192, 256), cfsr |-> s.cfsr, hfsr |-> s.hfsr]
    /\ info = NoInfo
    /\ nested = NoNested
    /\ scs = InitFDIR(build, ResetScs)

\* SaveRegisters
SaveRegisters ==
    /\ pc = "entry"
    /\ HandlerCaptures(build, act.handler)
    /\ info' = [registers |-> SelectedSp, cfsr |-> CMSIS_CFSR,
                hfsr |-> CMSIS_HFSR]
    /\ act' = [act EXCEPT !.captured = TRUE]
    /\ pc' = "saved"
    /\ UNCHANGED <<image, unwind_data, pure, build, cpu, nested, scs>>

\* PrepareUnwind (part_003): str r7 to last_call.fp, select the stack again,
\* ldr last_call.lr from [r0, #20]
PrepareUnwind ==
    /\ pc = "saved"
    /\ build = "part_003"
    /\ seed' = [fp |-> cpu.r7, lr |-> GetWord(SelectedSp, W(0, 20))]
    /\ pc' = "start"
    /\ UNCHANGED <<image, size, calls, past, fp, low, high, mid, entry, last,
                   runs, prev, seen, pure, fault>>

\* UnwindStack's operands of lines 110-111 (fdir.c): REGISTERS->lr, the
\* sixth word of the frame debug_info.registers points at, and the frame
\* address of the naked handler
SeedFromRegisters ==
    /\ pc = "saved"
    /\ build = "fdir_c"
    /\ seed' = [lr |-> GetWord(info.registers, W(0, 20)), fp |-> cpu.r7]
    /\ pc' = "start"
    /\ UNCHANGED <<image, size, calls, past, fp, low, high, mid, entry, last,
                   runs, prev, seen, pure, fault>>

\* while (1); reached after the unwind, or at once in a handler whose body
\* is the loop alone
Spin ==
    /\ \/ pc = "done"
       \/ pc = "entry" /\ ~HandlerCaptures(build, act.handler)
    /\ act' = [act EXCEPT !.from = pc]
    /\ pc' = "spin"
    /\ UNCHANGED <<image, unwind_data, pure, build, cpu, info, nested, scs>>

\* The address the frame step reads the caller pair at
DecodedFp(e) ==
    IF Dispatch(e) = "inline"
    THEN DecodeFrame(e.exidx_entry, e.decoded_entry, fp)
    ELSE DecodeFrame(GetWord(e.decoded_entry, W(0, 0)), e.decoded_entry, fp)

\* An address of the code region's first 64 KiB or of the SRAM holding the
\* stacks
Mapped(a) == a[1] \in {0, StackBase[1]}

\* The frame step about to run reads the caller pair outside the memory of
\* the image
WildRead ==
    /\ pc = "frame"
    /\ Dispatch(entry) \in {"inline", "extab"}
    /\ ~Mapped(DecodedFp(entry))

\* The read of a wild address faults instead of returning a word.  A fault
\* inside a fault handler escalates to HardFault_Handler, which pre-empts
\* the running handler on the main stack; inside HardFault_Handler the
\* processor locks up.
Escalate ==
    /\ WildRead
    /\ IF act.handler = "HardFault"
       THEN /\ pc' = "lockup"
            /\ UNCHANGED <<cpu, act, nested>>
       ELSE /\ pc' = "entry"
            /\ nested' = [handler |-> act.handler, pc |-> pc]
            /\ act' = [NoAct EXCEPT !.handler = "HardFault"]
            /\ cpu' = [cpu EXCEPT !.lr = ExcHandler,
                                  !.msp = Sub32(cpu.msp, W(0, 32)),
                                  !.cfsr = W(0, 33280),
                                  !.hfsr = W(16384, 0)]
    /\ UNCHANGED <<image, unwind_data, pure, build, info, scs>>

HandlerNext ==
    \/ SaveRegisters
    \/ PrepareUnwind
    \/ SeedFromRegisters
    \/ UnwindStackEnter
    \/ EnterFrame
    \/ ExitLoop
    \/ SearchProbe
    \/ SearchEnd
    \/ FrameStep
    \/ Spin
    \/ Escalate

HandlerSpec == HandlerInit /\ [][HandlerNext]_vars


--------------------------------------------------------------------------
(* Properties. *)

\* The record {lr = 0xffffffff, fp = 0xffffffff}
Sentinel == [lr |-> TERMINAL, fp |-> TERMINAL]

\* 0x07070707
GUARD_FP == W(1799, 1799)

\* A frame step of the current run has just returned to the loop test
AfterFrameStep == pc = "loop" /\ last.kind # "none"

\* Some record of the table has decoded_fn <= t
HasFloor(t) == ~Lt32(t, FnAddr(0))

\* Index of the record of the table with the greatest decoded_fn <= t
FloorIndex(t) ==
    CHOOSE i \in 0 .. image.n - 1 :
        /\ ~Lt32(t, FnAddr(i))
        /\ (i = image.n - 1 \/ Lt32(t, FnAddr(i + 1)))

\* C1: in every state of an unwind run size <= CALL_STACK_SIZE.
C1_SizeBounded == size <= CALL_STACK_SIZE

C1_Witness == pc = "done" /\ size = CALL_STACK_SIZE

\* C2: the unwinder writes nothing but size and calls[0..19]; in particular
\* the memory that follows calls[] is never stored to.
C2_NoWriteOutside == ~past.written

\* C3: every unwind run terminates, no loop in it runs forever.  The memory
\* image is immutable and the table search is deterministic in (low, high),
\* so a search that comes back to a pair it already had repeats from there
\* without end: in a terminating run no search is ever in the same
\* (low, high) twice.
C3_NoLoopForever == ~(pc = "search" /\ <<low, high>> \in seen)

\* C4: when some record has decoded_fn <= t, the search ends on the record
\* with the greatest decoded_fn <= t, t being the address searched.
C4_SearchFindsFloor ==
    (pc = "frame" /\ HasFloor(LAST_CALL(size).lr)
        /\ Lt32(LAST_CALL(size).lr, ExidxStart))
        => (mid = FloorIndex(LAST_CALL(size).lr)
            /\ entry.decoded_fn = FnAddr(FloorIndex(LAST_CALL(size).lr)))

\* C5: when t is lower than the decoded_fn of record 0, the search ends on
\* record 0.
C5_BelowFirstYieldsFirst ==
    (pc = "frame" /\ Lt32(LAST_CALL(size).lr, FnAddr(0))) => mid = 0

\* C6: a frame step whose record has second word 0x1 stores the terminal
\* sentinel in calls[size], size already incremented, and the loop then
\* makes no further frame step.
C6_CantunwindStops ==
    (AfterFrameStep /\ entry.exidx_entry = EXIDX_CANTUNWIND)
        => (LAST_CALL(size) = Sentinel /\ size = last.slot /\ ~LoopCondition)

C6_Witness ==
    AfterFrameStep /\ entry.exidx_entry = EXIDX_CANTUNWIND /\ size > 1

\* C7: no frame step is under way on a current record whose lr is
\* 0xffffffff or whose fp is 0x07070707.
C7_GuardStops ==
    pc \in {"search", "frame"}
        => (LAST_CALL(size).lr # TERMINAL /\ LAST_CALL(size).fp # GUARD_FP)

\* C8: when the walk ends at the cap without a CANTUNWIND record, size is
\* exactly CALL_STACK_SIZE and no terminal sentinel has been stored.
C8_CapNoSentinel ==
    (pc = "done" /\ size >= CALL_STACK_SIZE
        /\ entry.exidx_entry # EXIDX_CANTUNWIND)
        => /\ size = CALL_STACK_SIZE
           /\ \A k \in 0 .. CALL_STACK_SIZE - 1 : calls[k] # Sentinel
           /\ [lr |-> past.lr, fp |-> past.fp] # Sentinel

C8_Witness ==
    pc = "done" /\ size = CALL_STACK_SIZE
        /\ entry.exidx_entry # EXIDX_CANTUNWIND

\* C9: after a frame step on an out-of-line record whose extab word has
\* bit 31 clear, the walk stops: the loop makes no further frame step.
C9_GenericStops ==
    (AfterFrameStep /\ last.kind = "generic") => ~LoopCondition

\* C10: a run that follows a run with the same seed on the same buffer and
\* image ends with size and every calls[k] as that run left them.
C10_Idempotent ==
    (pc = "loop" /\ ~LoopCondition /\ prev.done /\ prev.seed = seed)
        => (size = prev.size /\ calls = prev.calls)

\* C11: when UnwindStack returns, size (the frames appended) is the number
\* of frame steps that decoded a descriptor, plus one if a terminal sentinel
\* was stored (at most one is), and is at most CALL_STACK_SIZE.
C11_SizeCountsDecodes ==
    pc = "done"
        => /\ size = last.decoded + last.sentinels
           /\ last.sentinels <= 1
           /\ size <= CALL_STACK_SIZE

\* The lr the walk of C12 is to leave in calls[k]: the functions at 0x1080,
\* 0x1040, 0x1000, then main
WalkExpected(k) == IF k < 3 THEN FnAddr(2 - k) ELSE FnAddr(image.n - 1)

\* The first run on the "walk" image from the seed lr = 0x1095
WalkRun == image.stk = "walk" /\ seed.lr = W(0, 4245) /\ runs = 1

\* C12: the walk main -> A -> B -> C from lr = 0x1095 over Su16
\* descriptors records 0x1080, 0x1040, 0x1000 and main's address in
\* calls[0..3].lr (each as soon as its frame step is over) and ends with
\* size = 4 and the terminal sentinel in calls[4].
C12_WalkResult ==
    (WalkRun /\ pc \in {"loop", "done"})
        => /\ \A k \in 0 .. 3 : k < size => calls[k].lr = WalkExpected(k)
           /\ pc = "done" => (size = 4 /\ calls[4] = Sentinel)

\* Byte length of the opcode that starts with byte b (opcode table): two
\* bytes for 1000iiii, 0xB1, 0xB2 with a one-byte uleb128, 0xB3; else one
OpcodeLength(b) ==
    IF (b >= 128 /\ b <= 143) \/ b \in {177, 178, 179} THEN 2 ELSE 1

\* Positions (from 1) of stream st at which an opcode starts, from i on
RECURSIVE OpcodeStarts(_, _)
OpcodeStarts(st, i) ==
    IF i > Len(st) THEN {}
    ELSE IF \A j \in i .. Len(st) : OpcodeLength(st[j]) = 1
    THEN i .. Len(st)
    ELSE {i} \cup OpcodeStarts(st, i + OpcodeLength(st[i]))

\* Byte offset of the first unwind instruction in a descriptor: bits 23-16
\* for Su16, byte offset 2 for Lu16 / Lu32
StreamStart(descr) == IF PersonalityIndex(descr) = SU16 THEN 1 ELSE 2

\* C13: on a stream of whole opcodes as long as the advertised count, the
\* decoder decodes as opcodes exactly the first bytes of the opcodes (no
\* operand byte), fetches no byte outside the stream, and ends having
\* consumed exactly the count.
C13_ConsumesWholeOpcodes ==
    dec.at = "ret"
        => LET first == StreamStart(dec.descr)
               n     == Len(dec.stream)
           IN  /\ dec.ops = {first + i - 1 : i \in OpcodeStarts(dec.stream, 1)}
               /\ dec.fetched \subseteq first .. first + n - 1
               /\ dec.index = n

\* Stream st is one opcode 0xB2 0x04 among finish opcodes
B2Only(st) ==
    \E i \in 1 .. Len(st) - 1 :
        /\ st[i] = 178
        /\ st[i + 1] = 4
        /\ \A j \in (1 .. Len(st)) \ {i, i + 1} : st[j] = 176

\* C14: opcode 0xB2 with the one-byte uleb128 0x04 adds 0x204 + (4 << 2) =
\* 0x214 to vsp wherever it sits in the stream: decoding a stream that
\* holds it among finish opcodes returns V + 0x214.
C14_B2AddsUleb ==
    (dec.at = "ret" /\ B2Only(dec.stream))
        => dec.fp = Add32(dec.fp0, W(0, 532))

\* sign_extend_31(word & 0x7FFFFFFF) as an integer: bit 30 is the sign
SignedOffset(word) ==
    LET v == (word[1] % 32768) * 65536 + word[2]
    IN  IF v >= 1073741824 THEN (v - 1073741824) - 1073741824 ELSE v

\* (s + location) mod 2^32 for an integer s
AddSigned(s, location) ==
    LET lo == (s % 65536) + location[2]
    IN  W(((s \div 65536) + location[1] + (lo \div 65536)) % 65536,
          lo % 65536)

\* C15: DecodePrel31(word, location) is (sign_extend_31(word & 0x7FFFFFFF)
\* + location) mod 2^32, and flipping bit 31 of word does not change it.
C15_Prel31 ==
    (call.fn = "DecodePrel31" /\ call.done)
        => /\ call.out = AddSigned(SignedOffset(call.a), call.b)
           /\ call.out = DecodePrel31(W((call.a[1] + 32768) % 65536, call.a[2]),
                                      call.b)

\* A negative offset whose sum with the location wraps around 2^32
C15_Witness ==
    /\ call.fn = "DecodePrel31"
    /\ call.done
    /\ call.a[1] >= 32768 + 16384
    /\ call.b = W(0, 8192)
    /\ call.out[1] >= 32768

\* C16: GetWord returns b[0] | b[1] << 8 | b[2] << 16 | b[3] << 24 for the
\* four bytes b[0..3] stored at section + offset.
C16_GetWordLittleEndian ==
    (call.fn = "GetWord" /\ call.done)
        => LET field == Add32(call.a, call.b)
               b0 == MemByte(field)
               b1 == MemByte(Add32(field, W(0, 1)))
               b2 == MemByte(Add32(field, W(0, 2)))
               b3 == MemByte(Add32(field, W(0, 3)))
           IN  call.out = W(b3 * 256 + b2, b1 * 256 + b0)

\* An unaligned read: the four bytes come from two memory words
C16_Witness ==
    /\ call.fn = "GetWord"
    /\ call.done
    /\ call.b[2] % 4 = 3
    /\ call.a = W(StackBase[1], 256)
    /\ call.out # MemWord(Align4(Add32(call.a, call.b)))

\* The running handler has captured and its seed is loaded
Captured == act.captured /\ pc = "start"

C18_CapturePostcondition ==
    Captured =>
        /\ info.cfsr = cpu.cfsr
        /\ info.hfsr = cpu.hfsr
        /\ seed.lr = MemWord(Add32(info.registers, W(0, 20)))
        /\ seed.fp = cpu.r7

C18_Witness ==
    /\ Captured
    /\ build = "part_003"
    /\ info.cfsr # info.hfsr
    /\ info.hfsr = W(16384, 0)
    /\ seed.fp = W(8192, 256)

\* C19: each of the four fault handlers, once entered, captures, then
\* unwinds, then spins: no unwind step runs before the capture, and the
\* spin is reached only from the end of the unwind of a handler that has
\* captured.
C19_CaptureUnwindSpin ==
    /\ pc \in {"start", "loop", "search", "frame", "done"} => act.captured
    /\ pc = "spin" => (act.captured /\ act.from = "done")

\* C20: between a handler's capture and the end of its unwind no second
\* handler activation captures into the same DebugInfo, even if a further
\* fault is raised meanwhile.
C20_ExclusiveDebugInfo ==
    ~(/\ nested.pc \in {"saved", "start", "loop", "search", "frame"}
      /\ act.captured)

\* Bit b (0..31) of the word w
WordBit(w, b) == IF b < 16 THEN HasBit(w[2], b) ELSE HasBit(w[1], b - 16)

\* C21: after InitFDIR bits 16, 17 and 18 of SHCSR and bit 4 of CCR are set
\* whatever they were, no other bit of SHCSR and no bit of CCR other than
\* bits 4 and 3 has changed, and a second call leaves the registers as the
\* first one did.
C21_InitFDIR ==
    (call.fn = "InitFDIR" /\ call.n >= 1) =>
        /\ \A b \in {16, 17, 18} : WordBit(scs.shcsr, b)
        /\ WordBit(scs.ccr, 4)
        /\ \A b \in (0 .. 31) \ {16, 17, 18} :
               WordBit(scs.shcsr, b) = WordBit(call.before.shcsr, b)
        /\ \A b \in (0 .. 31) \ {3, 4} :
               WordBit(scs.ccr, b) = WordBit(call.before.ccr, b)
        /\ call.n >= 2 => scs = call.once

C21_Witness ==
    /\ call.fn = "InitFDIR"
    /\ call.n = 2
    /\ call.before.shcsr = W(2, 1)
    /\ scs.shcsr = W(7, 1)
    /\ call.before.ccr = W(0, 512)
    /\ scs.ccr \in {W(0, 528), W(0, 536)}

\* C22: within one unwind run size never decreases and changes only in a
\* frame step, by exactly 1, and no step of the run modifies calls[k] for a
\* k below the size it starts from.
C22_AppendOnly ==
    [][runs' = runs =>
           /\ size' >= size
           /\ size' # size => (pc = "frame" /\ size' = size + 1)
           /\ \A k \in 0 .. CALL_STACK_SIZE - 1 :
                  k < size => calls'[k] = calls[k]]_vars

C22_Witness ==
    /\ pc = "loop"
    /\ size = 3
    /\ last.slot = 3
    /\ calls[2] # NoCall

\* C23: the table search starts on exactly (__exidx_end - __exidx_start) / 8
\* records, tables of more than 255 records included: its first pass has
\* low = 0 and high = number of records - 1.
C23_SearchesWholeTable ==
    (pc = "search" /\ seen = {}) => (low = 0 /\ high = image.n - 1)

\* The returned vsp of a finished call of DecodeFrame on a long descriptor
\* whose stream is the one-byte opcode op among finish opcodes is the
\* initial vsp plus delta (mod 2^32), every byte having been decoded as an
\* opcode of its own
LongOneOp(op, delta) ==
    \A i \in 1 .. Len(dec.stream) :
        dec.stream = Place(op, i, Len(dec.stream)) =>
            /\ dec.fp = AddSigned(delta, dec.fp0)
            /\ dec.ops = 2 .. Len(dec.stream) + 1

\* A call of DecodeFrame on a long descriptor of one additional word has
\* returned
LongReturned ==
    /\ dec.at = "ret"
    /\ PersonalityIndex(dec.descr) \in {LU16, LU32}
    /\ Len(dec.stream) = 6

\* C24: for a Su16 descriptor the decoder fetches the bytes of bits 23-16,
\* 15-8 and 7-0 of the descriptor word (byte offsets 1, 2, 3) and no byte
\* of another word, and for 0x8001B0B0 it returns V + 8.
C24_Su16ThreeBytes ==
    (dec.at = "ret" /\ PersonalityIndex(dec.descr) = SU16) =>
        /\ dec.fetched = {1, 2, 3}
        /\ dec.descr = W(32769, 45232) => dec.fp = Add32(dec.fp0, W(0, 8))

\* C25: for a Lu16 / Lu32 descriptor with N in bits 23-16 the decoder
\* fetches exactly the 2 + 4 * N bytes at byte offsets 2 .. 2 + 4 * N + 1
\* from the start of the descriptor, byte i of the stream being the one
\* fetched at offset 2 + i.
C25_LongCount ==
    (dec.at = "ret" /\ PersonalityIndex(dec.descr) \in {LU16, LU32}) =>
        LET N == dec.descr[1] % 256
        IN  /\ dec.fetched = {2 + i : i \in 0 .. 2 + 4 * N - 1}
            /\ \A o \in dec.fetched :
                   o - 1 <= Len(dec.stream) =>
                       GetInstruction(dec.entry_ptr, dec.word, o)
                           = dec.stream[o - 1]

\* C26: opcode 01xxxxxx subtracts (xxxxxx << 2) + 4 from vsp mod 2^32 and
\* takes one byte.
C26_SubOpcode ==
    LongReturned =>
        \A op \in 64 .. 127 : LongOneOp(op, 0 - ((op % 64) * 4 + 4))

C29_ReservedIndexNoOp ==
    (dec.at = "ret" /\ PersonalityIndex(dec.descr) \notin {0, 1, 2}) =>
        /\ dec.fp = dec.fp0
        /\ dec.ops = {}
        /\ dec.fetched = {}

C29_Witness ==
    /\ dec.at = "ret"
    /\ PersonalityIndex(dec.descr) = 15
    /\ dec.fp = W(8192, 256)

\* C28: a frame whose unwind instructions hold the two-byte opcode 0x80 0x00
\* (refuse to unwind) is treated as CANTUNWIND: the frame step records the
\* terminal sentinel for it instead of a caller pair read at vsp.
C28_RefuseStops ==
    (AfterFrameStep /\ image.stk = "refuse" /\ last.kind = "extab")
        => LAST_CALL(size) = Sentinel

\* C30: when the second word of the record read is 0x00000001
\* (EXIDX_CANTUNWIND), the decoded_entry GetExidxEntry returns is the raw
\* word 0x1, wherever the record lies.
C30_CantunwindKept ==
    (pc \in {"search", "frame"} /\ seen # {}
         /\ entry.exidx_entry = EXIDX_CANTUNWIND)
        => entry.decoded_entry = entry.exidx_entry

\* decode_prel31(word, location) as the sum of integers mod 2^32
Prel31At(word, location) == AddSigned(SignedOffset(word), location)

\* The decoded_entry of a finished call of GetExidxEntry is the second word
\* itself when its bit 31 is set, and decode_prel31 of it at the address of
\* the second word when bit 31 is clear and the word is not 0x1
DecodedEntryRight ==
    LET where == Add32(call.a, call.b)
        w2    == MemWord(Add32(where, W(0, 4)))
    IN  /\ Bit31(w2) => call.out.decoded_entry = w2
        /\ (~Bit31(w2) /\ w2 # EXIDX_CANTUNWIND) =>
               call.out.decoded_entry = Prel31At(w2, Add32(where, W(0, 4)))

\* C31, as stated: for every 8-byte record GetExidxEntry returns decoded_fn
\* = decode_prel31(first word, section + offset), and decoded_entry as
\* above.
C31_EveryRecord ==
    (call.fn = "GetExidxEntry" /\ call.done) =>
        LET where == Add32(call.a, call.b)
        IN  /\ call.out.decoded_fn = Prel31At(MemWord(where), where)
            /\ DecodedEntryRight

\* C31, as the code has it: decoded_fn is decode_prel31(first word, section
\* + offset) when bit 31 of the first word is clear and 0 when it is set;
\* decoded_entry as above.
C31_Bit31ClearRecord ==
    (call.fn = "GetExidxEntry" /\ call.done) =>
        LET where == Add32(call.a, call.b)
            w1    == MemWord(where)
        IN  /\ call.out.decoded_fn
                   = IF Bit31(w1) THEN W(0, 0) ELSE Prel31At(w1, where)
            /\ call.out.exidx_fn = w1
            /\ call.out.exidx_entry = MemWord(Add32(where, W(0, 4)))
            /\ DecodedEntryRight

\* A record of the table with an out-of-line descriptor has been decoded
C31_Witness ==
    /\ call.fn = "GetExidxEntry"
    /\ call.done
    /\ call.a = ExidxStart
    /\ call.b = W(0, 8)
    /\ call.out.decoded_fn = FnAddr(1)
    /\ call.out.decoded_entry = Add32(ExtabStart, W(0, 8))

\* The 32-bit little-endian word whose four bytes are stored from address a
WordAt(a) ==
    W(MemByte(Add32(a, W(0, 3))) * 256 + MemByte(Add32(a, W(0, 2))),
      MemByte(Add32(a, W(0, 1))) * 256 + MemByte(a))

\* A frame step that decoded a compact descriptor (inline, or out of line
\* with bit 31 set in the extab word) has just returned to the loop test
AfterCompactStep == AfterFrameStep /\ last.kind \in {"inline", "extab"}

\* C32: after a frame step that decoded a compact descriptor to vsp from the
\* previous frame's fp, calls[size].fp is the word stored at vsp and
\* calls[size].lr is the word stored at vsp + 4, minus 1 mod 2^32.
C32_CallerPairAtVsp ==
    AfterCompactStep =>
        LET vsp == DecodedFp(entry)
        IN  /\ LAST_CALL(size).fp = WordAt(vsp)
            /\ LAST_CALL(size).lr = AddSigned(0 - 1, WordAt(Add32(vsp, W(0, 4))))

C32_Witness ==
    /\ AfterCompactStep
    /\ last.kind = "extab"
    /\ size = 2
    /\ image.stk = "chain"
    /\ calls[2].fp = WordAt(DecodedFp(entry))
    /\ calls[2].fp # calls[2].lr

\* C33: the lr recorded in calls[size] is the word read at vsp + 4 with its
\* bit 0 cleared, for every such word.
C33_ThumbBitCleared ==
    AfterCompactStep =>
        LET w == WordAt(Add32(DecodedFp(entry), W(0, 4)))
        IN  LAST_CALL(size).lr = W(w[1], w[2] - (w[2] % 2))

\* C34: the frame step overwrites calls[size].lr, before size is
\* incremented, with the decoded_fn of the entry the search found, so that
\* when a run ends every calls[k].lr with k < size is the decoded_fn of a
\* record of the exidx table.
C34_SnappedToEntry ==
    /\ AfterFrameStep => calls[size - 1].lr = entry.decoded_fn
    /\ pc = "done" =>
           \A k \in 0 .. CALL_STACK_SIZE - 1 :
               k < size =>
                   \E m \in 0 .. image.n - 1 :
                       calls[k].lr
                           = GetExidxEntry(ExidxStart, Nat32(8 * m)).decoded_fn

\* C39: a caller pair read from the stack never has lr = 0xFFFFFFFF,
\* whatever the saved LR word is: only the terminal sentinel of a
\* CANTUNWIND record has it.
C39_SentinelOnlyCantunwind ==
    AfterCompactStep => LAST_CALL(size).lr # TERMINAL

\* Byte b starts an opcode that moves vsp (opcode table): 00xxxxxx,
\* 01xxxxxx or 0xB2
MovesVsp(b) == b < 128 \/ b = 178

\* C35: a stream that holds no 00xxxxxx, 01xxxxxx or 0xB2 opcode (only
\* register pops with their operands and finish) leaves vsp as it was,
\* wherever in the stream its opcodes stand.
C35_OtherOpcodesKeepVsp ==
    (dec.at = "ret" /\ Len(dec.stream) > 0
        /\ \A i \in OpcodeStarts(dec.stream, 1) : ~MovesVsp(dec.stream[i]))
        => dec.fp = dec.fp0

\* Stream st is made of finish (0xB0) and vsp += 8 (0x01) opcodes only
FinishAndAdd(st) == \A i \in 1 .. Len(st) : st[i] \in {1, 176}

\* C36: a finish opcode does not end the decoding: the decoder runs to its
\* count, the bytes fetched are those of offsets 2 .. count + 1 wherever
\* the finish opcodes stand, the byte after a decoded finish is decoded as
\* an opcode too, and on a long descriptor made of finish and vsp += 8
\* opcodes every vsp += 8 acts, those after a finish included.
C36_FinishDoesNotStop ==
    (dec.at = "ret" /\ HasRoutine(PersonalityIndex(dec.descr))) =>
        /\ dec.index >= dec.count
        /\ dec.fetched = 2 .. dec.count + 1
        /\ \A o \in dec.ops :
               (GetInstruction(dec.entry_ptr, dec.word, o) = 176
                    /\ o < dec.count + 1) => o + 1 \in dec.ops
        /\ (LongReturned /\ FinishAndAdd(dec.stream)) =>
               dec.fp = AddSigned(
                   8 * Cardinality({i \in 1 .. 6 : dec.stream[i] = 1}),
                   dec.fp0)

C36_Witness ==
    /\ LongReturned
    /\ dec.stream = <<176, 1, 176, 176, 1, 176>>
    /\ dec.ops = 2 .. 7
    /\ dec.fp = Add32(dec.fp0, W(0, 16))

\* C37: while a table of 1..255 records is searched, the record last read
\* is one of the table (0 <= mid < entries_count) and low and high stay
\* within 0 .. entries_count, i.e. neither wraps around 8 bits.
C37_ProbesInsideTable ==
    (pc \in {"search", "frame"} /\ image.n <= 255) =>
        /\ seen # {} => mid < image.n
        /\ high < image.n
        /\ low <= image.n

\* stacktrace.c, GetFunctionPersonnalRoutine, lines 476-478: the do-while
\* loop from the uint8_t index i on; the index it stops at
RECURSIVE ScanDown(_, _)
ScanDown(i, fn) ==
    LET j == (i - 1) % 256
    IN  IF j > 0 /\ Lt32(fn, GetExidxEntry(ExidxStart, Nat32(8 * j)).decoded_fn)
        THEN ScanDown(j, fn)
        ELSE j

\* Lines 461 and 473-478: the record the downward linear scan selects for
\* the address fn in a table of entries_count records
LinearScan(entries_count, fn) == ScanDown(entries_count % 256, fn)

\* C38: the record the binary search leaves in entry is the record the
\* downward linear scan of stacktrace.c stops at for the same address.
C38_SameAsLinearScan ==
    pc = "frame" =>
        entry = GetExidxEntry(ExidxStart,
                    Nat32(8 * LinearScan(image.n, LAST_CALL(size).lr)))

==========================================================================
